---- MODULE Spec2Model ----
(***************************************************************************)
(* Model of the build script of mpfr-sys (src/build.rs): the library       *)
(* presence detector check_library, the flag composition and the           *)
(* configure/make/staging sequence of run_build, the announcement of       *)
(* emit_cargo_config, and main, which ties them together.  One run of the  *)
(* script is a walk of pc through the statements of main; the file system  *)
(* below OUT_DIR survives from one run to the next.                        *)
(***************************************************************************)
EXTENDS Integers, Sequences, FiniteSets, TLC

VARIABLES
    pc,        \* the statement of main / run_build that executes next
    host_os,   \* the platform the script was compiled for (cfg! values)
    env,       \* the process environment: variable -> {} (unset) or {value}
    progs,     \* the programs on PATH: name -> {} (absent) or {output lines}
    sodirs,    \* the system directories in which libmpfr.so exists
    fs,        \* the tree below OUT_DIR: path -> "absent" | "old" | "new"
    staged0,   \* the staged files that existed when the current run began
    present,   \* what check_library returned in this run
    flags,     \* the strings composed by run_build: {} or {[cflags, ldflags]}
    rmres,     \* the results of the two rmdir_recursive calls (discarded by the code)
    procs,     \* the subprocesses launched in this run, in order
    stdout,    \* the lines printed in this run, in order
    prevOk,    \* the previous run returned normally after the detector said false
    sameEnv    \* this run's environment equals the previous run's

vars == <<pc, host_os, env, progs, sodirs, fs, staged0, present, flags,
          rmres, procs, stdout, prevOk, sameEnv>>

----------------------------------------------------------------------------
(* Option<String>: {} is None, {s} is Some(s).                             *)

None == {}

Some(s) == {s}

unwrap(o) == CHOOSE s \in o : TRUE

unwrap_or(o, d) == IF o = None THEN d ELSE unwrap(o)

(* str::contains: sub occurs in s as a contiguous run of characters.       *)
contains(s, sub) ==
    \E i \in 1..(Len(s) - Len(sub) + 1) : SubSeq(s, i, i + Len(sub) - 1) = sub

ends_with(s, suf) ==
    /\ Len(suf) <= Len(s)
    /\ SubSeq(s, Len(s) - Len(suf) + 1, Len(s)) = suf

(* The whitespace-separated words of a flag string, as the shell and the   *)
(* compiler driver see them.                                               *)
RECURSIVE words(_)
words(s) ==
    IF Len(s) = 0 THEN <<>>
    ELSE IF SubSeq(s, 1, 1) = " " THEN words(SubSeq(s, 2, Len(s)))
    ELSE LET stop == IF contains(s, " ")
                       THEN CHOOSE i \in 1..Len(s) :
                              /\ SubSeq(s, i, i) = " "
                              /\ \A j \in 1..(i - 1) : SubSeq(s, j, j) # " "
                       ELSE Len(s) + 1
         IN  <<SubSeq(s, 1, stop - 1)>> \o words(SubSeq(s, stop + 1, Len(s)))

----------------------------------------------------------------------------
(* Program constants.                                                      *)

MPFR_NAME == "libmpfr"

LdTool == "ldcoig"

LibDirs == {"/lib", "/usr/lib", "/usr/local/lib"}

----------------------------------------------------------------------------
(* check_library.  The result is "true", "false", or "panic" when one of   *)
(* the unwrap calls inside it fails.                                       *)

(* br.lines().map(|l| l.unwrap()).any(pred): the lines are taken in order, *)
(* each is unwrapped before the predicate sees it, and the scan stops at   *)
(* the first line the predicate accepts.                                   *)
RECURSIVE any_line(_, _, _)
any_line(lines, name, is_64bit) ==
    IF lines = <<>> THEN "false"
    ELSE LET l == Head(lines)
         IN  IF ~l.ok THEN "panic"
             ELSE IF contains(l.text, name)
                     /\ (IF is_64bit THEN contains(l.text, "x86-64") ELSE TRUE)
                  THEN "true"
                  ELSE any_line(Tail(lines), name, is_64bit)

(* The probe with the directory list not applied.                         *)
probe_dirs_any(so) == IF so # {} THEN "true" ELSE "false"

probe_dirs(so) == IF \E d \in LibDirs : d \in so THEN "true" ELSE "false"

check_library_unix(name, e, pr, so) ==
    IF pr[LdTool] # None
    THEN IF e.TARGET = None THEN "panic"
         ELSE LET is_64bit == contains(unwrap(e.TARGET), "x86_64")
                  output   == unwrap(pr[LdTool])
              IN  IF Len(output) > 0
                  THEN any_line(output, name, is_64bit)
                  ELSE probe_dirs(so)
    ELSE probe_dirs(so)

check_library_windows(name) == "false"

check_library(os, name, e, pr, so) ==
    IF os = "windows" THEN check_library_windows(name)
    ELSE check_library_unix(name, e, pr, so)

----------------------------------------------------------------------------
(* The flag composition at the head of run_build.                          *)

compose_ldflags(e) ==
    LET ldflags == unwrap_or(e.LDFLAGS, "")
    IN  IF e.DEP_GMP_LIBDIR # None
        THEN ldflags \o "-L" \o unwrap(e.DEP_GMP_LIBDIR)
        ELSE ldflags

compose_cflags(e) ==
    LET target == unwrap(e.TARGET)
        c0 == unwrap_or(e.CFLAGS, "")
        c1 == c0 \o " -ffunction-sections -fdata-sections"
        c2 == IF contains(target, "i686") THEN c1 \o " -m32"
              ELSE IF contains(target, "x86_64") THEN c1 \o " -m64"
              ELSE c1
        c3 == IF ~contains(target, "i686") THEN c2 \o " -fPIC" ELSE c2
    IN  IF e.DEP_GMP_INCLUDE # None
        THEN c3 \o "-I" \o unwrap(e.DEP_GMP_INCLUDE)
        ELSE c3

make(os) == IF os = "freebsd" THEN "gmake" ELSE "make"

----------------------------------------------------------------------------
(* The paths bound at the head of main, and the tree below OUT_DIR.        *)

OUT_DIR == "OUT_DIR"

join(a, b) == a \o "/" \o b

mpfr_build_dir == join(OUT_DIR, "build")

mpfr_out_dir == join(OUT_DIR, "out")

mpfr_out_lib_dir == join(mpfr_out_dir, "lib")

mpfr_out_include_dir == join(mpfr_out_dir, "include")

staged_lib == join(mpfr_out_lib_dir, "libmpfr.a")

staged_mpfr_h == join(mpfr_out_include_dir, "mpfr.h")

staged_mpf2mpfr_h == join(mpfr_out_include_dir, "mpf2mpfr.h")

p1 == join(mpfr_build_dir, "src/.libs/libmpfr.a")

p2 == join(mpfr_build_dir, "src/.libs/libmpfr.lib")

build_mpfr_h == join(mpfr_build_dir, "src/mpfr.h")

build_mpf2mpfr_h == join(mpfr_build_dir, "src/mpf2mpfr.h")

build_makefile == join(mpfr_build_dir, "Makefile")

Dirs == {mpfr_build_dir, mpfr_out_dir, mpfr_out_lib_dir, mpfr_out_include_dir}

MakeProducts == {p1, p2, build_mpfr_h, build_mpf2mpfr_h}

BuildFiles == {build_makefile} \cup MakeProducts

StagedFiles == {staged_lib, staged_mpfr_h, staged_mpf2mpfr_h}

Paths == Dirs \cup BuildFiles \cup StagedFiles

(* The entries directly inside a directory.                                *)
children(d) ==
    IF d = mpfr_build_dir THEN BuildFiles
    ELSE IF d = mpfr_out_dir THEN {mpfr_out_lib_dir, mpfr_out_include_dir}
    ELSE IF d = mpfr_out_lib_dir THEN {staged_lib}
    ELSE IF d = mpfr_out_include_dir THEN {staged_mpfr_h, staged_mpf2mpfr_h}
    ELSE {}

(* Everything below a directory.                                           *)
under(d) == children(d) \cup UNION {children(c) : c \in children(d)}

exists(f, p) == f[p] # "absent"

remove(f, S) == [p \in Paths |-> IF p \in S THEN "absent" ELSE f[p]]

write(f, S) == [p \in Paths |-> IF p \in S THEN "new" ELSE f[p]]

(* fs::rmdir_recursive: the possible results and the tree each leaves.     *)
(* "notfound" when the directory does not exist; "ok" when it and all      *)
(* below it were removed; "err" when the walk stopped at an entry it could *)
(* not remove: the entries removed up to then are gone (a directory only   *)
(* once it was empty), the directory itself is still there.                *)
rmdir_recursive(f, d) ==
    IF ~exists(f, d) THEN {[res |-> "notfound", fs |-> f]}
    ELSE {[res |-> "ok", fs |-> remove(f, under(d) \cup {d})]}
         \cup {[res |-> "err", fs |-> remove(f, S)] :
                 S \in {T \in SUBSET {q \in under(d) : exists(f, q)} :
                          \A x \in T : \A c \in children(x) :
                              exists(f, c) => c \in T}}

(* fs::mkdir_recursive of a directory directly inside mpfr_out_dir: the    *)
(* trees it can leave.  Missing components are created from the top; an    *)
(* error stops it after any number of them.                                *)
mkdir_recursive(f, d) ==
    LET made(S) == write(f, {q \in S : ~exists(f, q)})
    IN  {made({mpfr_out_dir, d}), made({mpfr_out_dir}), f}

(* fs::mkdir: "ok" creates the directory; it is an error when the path     *)
(* already exists, and it can fail for other reasons too.                  *)
mkdir(f, d) ==
    IF exists(f, d) THEN {[res |-> "err", fs |-> f]}
    ELSE {[res |-> "ok", fs |-> write(f, {d})], [res |-> "err", fs |-> f]}

(* fs::rename of a file: needs the source and the target directory; moves  *)
(* the file over whatever is at the target.                                *)
rename(f, from, to, todir) ==
    IF ~exists(f, from) \/ ~exists(f, todir) THEN {[res |-> "err", fs |-> f]}
    ELSE {[res |-> "ok", fs |-> write(remove(f, {from}), {to})],
          [res |-> "err", fs |-> f]}

(* A copy that takes the source away, as a rename would.                   *)
copy_moving(f, from, to, todir) ==
    IF ~exists(f, from) \/ ~exists(f, todir) THEN {[res |-> "err", fs |-> f]}
    ELSE {[res |-> "ok", fs |-> write(remove(f, {from}), {to})],
          [res |-> "err", fs |-> write(f, {to})],
          [res |-> "err", fs |-> f]}

(* fs::copy: fails before touching the target when the source is not a     *)
(* file or the target cannot be created; a failure after the target was    *)
(* created leaves the target behind.                                       *)
copy(f, from, to, todir) ==
    IF ~exists(f, from) \/ ~exists(f, todir) THEN {[res |-> "err", fs |-> f]}
    ELSE {[res |-> "ok", fs |-> write(f, {to})],
          [res |-> "err", fs |-> write(f, {to})],
          [res |-> "err", fs |-> f]}

----------------------------------------------------------------------------
(* main, statement by statement.                                           *)

(* The test looking for the archive where make left it, not where it was   *)
(* staged.                                                                 *)
Marker_unstaged(f) ==
    /\ exists(f, mpfr_out_lib_dir) /\ exists(f, p1)
    /\ exists(f, mpfr_out_include_dir) /\ exists(f, staged_mpfr_h)

Marker(f) ==
    /\ exists(f, mpfr_out_lib_dir) /\ exists(f, staged_lib)
    /\ exists(f, mpfr_out_include_dir) /\ exists(f, staged_mpfr_h)

Proc(cmd, args, penv, status) ==
    [cmd |-> cmd, args |-> args, env |-> penv, status |-> status]

(* main without the return after a positive detection.                     *)
CheckLibrary_fallthrough ==
    /\ pc = "check_library"
    /\ LET r == check_library(host_os, MPFR_NAME, env, progs, sodirs)
       IN  /\ present' = r
           /\ pc' = IF r = "panic" THEN "panicked" ELSE "check_marker"
    /\ UNCHANGED <<host_os, env, progs, sodirs, fs, staged0, flags, rmres,
                   procs, stdout, prevOk, sameEnv>>

(* main: if check_library(MPFR_NAME) { return; }                           *)
CheckLibrary ==
    /\ pc = "check_library"
    /\ LET r == check_library(host_os, MPFR_NAME, env, progs, sodirs)
       IN  /\ present' = r
           /\ pc' = IF r = "true" THEN "returned"
                    ELSE IF r = "false" THEN "check_marker"
                    ELSE "panicked"
    /\ UNCHANGED <<host_os, env, progs, sodirs, fs, staged0, flags, rmres,
                   procs, stdout, prevOk, sameEnv>>

(* main: the test that guards the call of run_build.                       *)
CheckMarker ==
    /\ pc = "check_marker"
    /\ pc' = IF ~Marker(fs) THEN "run_build" ELSE "emit"
    /\ UNCHANGED <<host_os, env, progs, sodirs, fs, staged0, present, flags,
                   rmres, procs, stdout, prevOk, sameEnv>>

(* run_build: TARGET is unwrapped, then the two flag strings are composed. *)
ComposeFlags ==
    /\ pc = "run_build"
    /\ IF env.TARGET = None
       THEN pc' = "panicked" /\ UNCHANGED flags
       ELSE /\ flags' = Some([cflags |-> compose_cflags(env),
                              ldflags |-> compose_ldflags(env)])
            /\ pc' = "rm_build"
    /\ UNCHANGED <<host_os, env, progs, sodirs, fs, staged0, present, rmres,
                   procs, stdout, prevOk, sameEnv>>

(* let _ = fs::rmdir_recursive(mpfr_build_dir);                            *)
RmBuild ==
    /\ pc = "rm_build"
    /\ \E o \in rmdir_recursive(fs, mpfr_build_dir) :
         /\ fs' = o.fs
         /\ rmres' = [rmres EXCEPT !.build = o.res]
    /\ pc' = "rm_out"
    /\ UNCHANGED <<host_os, env, progs, sodirs, staged0, present, flags,
                   procs, stdout, prevOk, sameEnv>>

(* let _ = fs::rmdir_recursive(mpfr_out_dir);                              *)
RmOut ==
    /\ pc = "rm_out"
    /\ \E o \in rmdir_recursive(fs, mpfr_out_dir) :
         /\ fs' = o.fs
         /\ rmres' = [rmres EXCEPT !.out = o.res]
    /\ pc' = "mkdir_lib"
    /\ UNCHANGED <<host_os, env, progs, sodirs, staged0, present, flags,
                   procs, stdout, prevOk, sameEnv>>

(* let _ = fs::mkdir_recursive(mpfr_out_lib_dir, io::USER_DIR);            *)
MkdirLib ==
    /\ pc = "mkdir_lib"
    /\ fs' \in mkdir_recursive(fs, mpfr_out_lib_dir)
    /\ pc' = "mkdir_include"
    /\ UNCHANGED <<host_os, env, progs, sodirs, staged0, present, flags,
                   rmres, procs, stdout, prevOk, sameEnv>>

(* let _ = fs::mkdir_recursive(mpfr_out_include_dir, io::USER_DIR);        *)
MkdirInclude ==
    /\ pc = "mkdir_include"
    /\ fs' \in mkdir_recursive(fs, mpfr_out_include_dir)
    /\ pc' = "mkdir_build"
    /\ UNCHANGED <<host_os, env, progs, sodirs, staged0, present, flags,
                   rmres, procs, stdout, prevOk, sameEnv>>

(* The mkdir of the build directory with its result discarded like the    *)
(* two before it.                                                          *)
MkdirBuild_ignored ==
    /\ pc = "mkdir_build"
    /\ \E o \in mkdir(fs, mpfr_build_dir) : fs' = o.fs
    /\ pc' = "configure"
    /\ UNCHANGED <<host_os, env, progs, sodirs, staged0, present, flags,
                   rmres, procs, stdout, prevOk, sameEnv>>

(* fs::mkdir(mpfr_build_dir, io::USER_DIR).unwrap();                       *)
MkdirBuild ==
    /\ pc = "mkdir_build"
    /\ \E o \in mkdir(fs, mpfr_build_dir) :
         /\ fs' = o.fs
         /\ pc' = IF o.res = "ok" THEN "configure" ELSE "panicked"
    /\ UNCHANGED <<host_os, env, progs, sodirs, staged0, present, flags,
                   rmres, procs, stdout, prevOk, sameEnv>>

(* configure launched without the assert on its exit status.              *)
Configure_unchecked ==
    /\ pc = "configure"
    /\ LET fl == unwrap(flags)
           penv == [CFLAGS |-> Some(fl.cflags),
                    LDFLAGS |-> IF fl.ldflags # "" THEN Some(fl.ldflags)
                                ELSE None]
       IN  \E st \in {"ok", "fail", "nolaunch"} :
             /\ procs' = Append(procs, Proc("sh", <<"-c">>, penv, st))
             /\ fs' \in (IF st = "nolaunch" THEN {fs}
                         ELSE IF st = "ok" THEN {write(fs, {build_makefile})}
                         ELSE {fs, write(fs, {build_makefile})})
             /\ pc' = IF st = "nolaunch" THEN "panicked" ELSE "make"
    /\ stdout' = Append(stdout, "running: sh")
    /\ UNCHANGED <<host_os, env, progs, sodirs, staged0, present, flags,
                   rmres, prevOk, sameEnv>>

(* run(Command::new("sh").env("CFLAGS", cflags)...): the command is        *)
(* printed, then launched in mpfr_build_dir; the run goes on only when it  *)
(* was launched and exited with success.  configure writes below its       *)
(* working directory only.                                                 *)
Configure ==
    /\ pc = "configure"
    /\ LET fl == unwrap(flags)
           penv == [CFLAGS |-> Some(fl.cflags),
                    LDFLAGS |-> IF fl.ldflags # "" THEN Some(fl.ldflags)
                                ELSE None]
       IN  \E st \in {"ok", "fail", "nolaunch"} :
             /\ procs' = Append(procs, Proc("sh", <<"-c">>, penv, st))
             /\ fs' \in (IF st = "nolaunch" THEN {fs}
                         ELSE IF st = "ok" THEN {write(fs, {build_makefile})}
                         ELSE {fs, write(fs, {build_makefile})})
             /\ pc' = IF st = "ok" THEN "make" ELSE "panicked"
    /\ stdout' = Append(stdout, "running: sh")
    /\ UNCHANGED <<host_os, env, progs, sodirs, staged0, present, flags,
                   rmres, prevOk, sameEnv>>

(* run(Command::new(make()).arg(format!("-j{}", NUM_JOBS.unwrap()))...):   *)
(* the argument is built before run is entered.  make writes below its     *)
(* working directory only, and which of the expected files it leaves is    *)
(* up to the vendored tree.                                                *)
Make ==
    /\ pc = "make"
    /\ IF env.NUM_JOBS = None
       THEN pc' = "panicked" /\ UNCHANGED <<fs, procs, stdout>>
       ELSE /\ stdout' = Append(stdout, "running: " \o make(host_os))
            /\ \E st \in {"ok", "fail", "nolaunch"} :
                 /\ procs' = Append(procs,
                        Proc(make(host_os),
                             <<"-j" \o unwrap(env.NUM_JOBS)>>,
                             [CFLAGS |-> None, LDFLAGS |-> None], st))
                 /\ \E S \in SUBSET MakeProducts :
                      /\ st = "nolaunch" => S = {}
                      /\ fs' = write(fs, S)
                 /\ pc' = IF st = "ok" THEN "rename" ELSE "panicked"
    /\ UNCHANGED <<host_os, env, progs, sodirs, staged0, present, flags,
                   rmres, prevOk, sameEnv>>

(* The rename with its result discarded instead of unwrapped.             *)
Rename_unchecked ==
    /\ pc = "rename"
    /\ LET from == IF exists(fs, p1) THEN p1 ELSE p2
       IN  \E o \in rename(fs, from, staged_lib, mpfr_out_lib_dir) : fs' = o.fs
    /\ pc' = "copy_mpfr_h"
    /\ UNCHANGED <<host_os, env, progs, sodirs, staged0, present, flags,
                   rmres, procs, stdout, prevOk, sameEnv>>

(* if p1.exists() { fs::rename(&p1, ...).unwrap() }                        *)
(* else { fs::rename(&p2, ...).unwrap() }                                  *)
Rename ==
    /\ pc = "rename"
    /\ LET from == IF exists(fs, p1) THEN p1 ELSE p2
       IN  \E o \in rename(fs, from, staged_lib, mpfr_out_lib_dir) :
             /\ fs' = o.fs
             /\ pc' = IF o.res = "ok" THEN "copy_mpfr_h" ELSE "panicked"
    /\ UNCHANGED <<host_os, env, progs, sodirs, staged0, present, flags,
                   rmres, procs, stdout, prevOk, sameEnv>>

(* fs::copy(build/src/mpfr.h, out/include/mpfr.h).unwrap();                *)
CopyMpfrH ==
    /\ pc = "copy_mpfr_h"
    /\ \E o \in copy(fs, build_mpfr_h, staged_mpfr_h, mpfr_out_include_dir) :
         /\ fs' = o.fs
         /\ pc' = IF o.res = "ok" THEN "copy_mpf2mpfr_h" ELSE "panicked"
    /\ UNCHANGED <<host_os, env, progs, sodirs, staged0, present, flags,
                   rmres, procs, stdout, prevOk, sameEnv>>

(* fs::copy(build/src/mpf2mpfr.h, out/include/mpf2mpfr.h).unwrap();        *)
CopyMpf2mpfrH ==
    /\ pc = "copy_mpf2mpfr_h"
    /\ \E o \in copy(fs, build_mpf2mpfr_h, staged_mpf2mpfr_h,
                     mpfr_out_include_dir) :
         /\ fs' = o.fs
         /\ pc' = IF o.res = "ok" THEN "emit" ELSE "panicked"
    /\ UNCHANGED <<host_os, env, progs, sodirs, staged0, present, flags,
                   rmres, procs, stdout, prevOk, sameEnv>>

(* emit_cargo_config(&mpfr_out_lib_dir, &mpfr_out_include_dir)             *)
emit_cargo_config(lib_dir, include_dir) ==
    << "cargo:rustc-flags=-L " \o lib_dir \o " -l mpfr:static",
       "cargo:libdir=" \o lib_dir,
       "cargo:include=" \o include_dir >>

Emit ==
    /\ pc = "emit"
    /\ stdout' = stdout \o emit_cargo_config(mpfr_out_lib_dir,
                                            mpfr_out_include_dir)
    /\ pc' = "returned"
    /\ UNCHANGED <<host_os, env, progs, sodirs, fs, staged0, present, flags,
                   rmres, procs, prevOk, sameEnv>>

----------------------------------------------------------------------------
(* The inputs of a run: environment, installed programs, system            *)
(* directories.                                                            *)

MaxLines == 2

SeqsUpTo(A, n) == UNION {[1..k -> A] : k \in 0..n}

Line64 == [ok |-> TRUE, text |-> "libmpfr.so.4 (libc6,x86-64) => /usr/lib/libmpfr.so.4"]

Line32 == [ok |-> TRUE, text |-> "libmpfr.so.4 (libc6) => /usr/lib32/libmpfr.so.4"]

LineGmp == [ok |-> TRUE, text |-> "libgmp.so.10 (libc6,x86-64) => /usr/lib/libgmp.so.10"]

LineBad == [ok |-> FALSE, text |-> ""]

Lines == {Line64, Line32, LineGmp, LineBad}

Targets == {"x86_64-unknown-linux-gnu", "i686-unknown-linux-gnu",
            "arm-unknown-linux-gnueabihf", "x86_64-unknown-freebsd"}

Hosts == {"linux", "freebsd", "windows"}

NoProgs == [ldcoig |-> None, ldconfig |-> None]

NoFlagsEnv(t, n) ==
    [TARGET |-> t, CFLAGS |-> None, LDFLAGS |-> None, DEP_GMP_LIBDIR |-> None,
     DEP_GMP_INCLUDE |-> None, NUM_JOBS |-> n]

(* The runs of main: few inputs, every branch of main taken.               *)
MainEnvs ==
    {NoFlagsEnv(t, n) : t \in {None, Some("x86_64-unknown-linux-gnu")},
                        n \in {None, Some("4")}}

MainProgs == [ldcoig : {None, Some(<<>>), Some(<<LineBad>>)}, ldconfig : {None}]

MainSoDirs == {{}, {"/usr/lib"}}

(* check_library alone: every listing of up to MaxLines lines.             *)
DetectEnvs == {NoFlagsEnv(t, Some("4")) : t \in {None} \cup {Some(t) : t \in Targets}}

DetectProgs ==
    [ldcoig : {None} \cup {Some(o) : o \in SeqsUpTo(Lines, MaxLines)},
     ldconfig : {None, Some(<<Line64>>)}]

DetectSoDirs == {{}, {"/lib"}, {"/usr/lib"}, {"/usr/local/lib"}, {"/opt/lib"}}

(* The flag composition alone: every combination of the variables read.    *)
FlagEnvs ==
    [TARGET : {None} \cup {Some(t) : t \in Targets},
     CFLAGS : {None, Some(""), Some("-O2")},
     LDFLAGS : {None, Some(""), Some("-s")},
     DEP_GMP_LIBDIR : {None, Some("/opt/dep/lib")},
     DEP_GMP_INCLUDE : {None, Some("/opt/dep/include")},
     NUM_JOBS : {Some("4")}]

EmptyFs == [p \in Paths |-> "absent"]

InitWith(at, H, E, P, S) ==
    /\ pc = at
    /\ host_os \in H
    /\ env \in E
    /\ progs \in P
    /\ sodirs \in S
    /\ fs = EmptyFs
    /\ staged0 = {}
    /\ present = IF at = "check_library" THEN "none" ELSE "false"
    /\ flags = None
    /\ rmres = [build |-> "none", out |-> "none"]
    /\ procs = <<>>
    /\ stdout = <<>>
    /\ prevOk = FALSE
    /\ sameEnv = FALSE

(* The script is run again (by the next build of the consuming project):   *)
(* a new process, the tree below OUT_DIR as the last run left it.          *)
StartRun ==
    /\ pc \in {"returned", "panicked"}
    /\ pc' = "check_library"
    /\ env' \in MainEnvs
    /\ progs' \in MainProgs
    /\ sodirs' \in MainSoDirs
    /\ fs' = [p \in Paths |-> IF fs[p] = "new" THEN "old" ELSE fs[p]]
    /\ staged0' = {p \in StagedFiles : exists(fs, p)}
    /\ present' = "none"
    /\ flags' = None
    /\ rmres' = [build |-> "none", out |-> "none"]
    /\ procs' = <<>>
    /\ stdout' = <<>>
    /\ prevOk' = (pc = "returned" /\ present = "false")
    /\ sameEnv' = (env' = env)
    /\ UNCHANGED host_os

Init == InitWith("check_library", Hosts, MainEnvs, MainProgs, MainSoDirs)

Step ==
    \/ CheckLibrary
    \/ CheckMarker
    \/ ComposeFlags
    \/ RmBuild
    \/ RmOut
    \/ MkdirLib
    \/ MkdirInclude
    \/ MkdirBuild
    \/ Configure
    \/ Make
    \/ Rename
    \/ CopyMpfrH
    \/ CopyMpf2mpfrH
    \/ Emit

Next == Step \/ StartRun

Spec == Init /\ [][Next]_vars

(* check_library on its own, over the larger set of listings.              *)
InitDetect == InitWith("check_library", Hosts, DetectEnvs, DetectProgs, DetectSoDirs)

NextDetect == CheckLibrary

SpecDetect == InitDetect /\ [][NextDetect]_vars

(* The head of run_build on its own, over the larger set of environments.  *)
InitFlags == InitWith("run_build", Hosts, FlagEnvs, {NoProgs}, {{}})

NextFlags == ComposeFlags

SpecFlags == InitFlags /\ [][NextFlags]_vars

(* The launch of make on its own, over more targets, each built on its own *)
(* platform: the state of a first run on an empty OUT_DIR right after      *)
(* configure succeeded.                                                    *)
HostOf(target) ==
    IF contains(target, "freebsd") THEN "freebsd"
    ELSE IF contains(target, "openbsd") THEN "openbsd"
    ELSE "linux"

MakeTargets == Targets \cup {"x86_64-unknown-openbsd"}

MakeEnvs ==
    {NoFlagsEnv(Some(t), n) : t \in MakeTargets,
                              n \in {None, Some("1"), Some("4")}}

InitMake ==
    /\ pc = "make"
    /\ env \in MakeEnvs
    /\ host_os = HostOf(unwrap(env.TARGET))
    /\ progs = NoProgs
    /\ sodirs = {}
    /\ fs = write(EmptyFs, {mpfr_out_dir, mpfr_out_lib_dir,
                            mpfr_out_include_dir, mpfr_build_dir,
                            build_makefile})
    /\ staged0 = {}
    /\ present = "false"
    /\ flags = Some([cflags |-> compose_cflags(env),
                     ldflags |-> compose_ldflags(env)])
    /\ rmres = [build |-> "notfound", out |-> "notfound"]
    /\ procs = <<Proc("sh", <<"-c">>,
                      [CFLAGS |-> Some(compose_cflags(env)), LDFLAGS |-> None],
                      "ok")>>
    /\ stdout = <<"running: sh">>
    /\ prevOk = FALSE
    /\ sameEnv = FALSE

NextMake == Make

SpecMake == InitMake /\ [][NextMake]_vars

----------------------------------------------------------------------------
(* Vocabulary of the properties.                                           *)

starts_with(s, pre) == Len(pre) <= Len(s) /\ SubSeq(s, 1, Len(pre)) = pre

(* The lines of this run that cargo reads as announcements.                *)
Announced == SelectSeq(stdout, LAMBDA l : starts_with(l, "cargo:"))

Ended == pc \in {"returned", "panicked"}

(* The statements of main and run_build in program order.                  *)
PcOrder ==
    << "check_library", "check_marker", "run_build", "rm_build", "rm_out",
       "mkdir_lib", "mkdir_include", "mkdir_build", "configure", "make",
       "rename", "copy_mpfr_h", "copy_mpf2mpfr_h", "emit", "returned",
       "panicked" >>

Pos(x) == CHOOSE i \in 1..Len(PcOrder) : PcOrder[i] = x

(* run_build was not entered in this run, and the tree is as the run       *)
(* found it.                                                               *)
Untouched ==
    /\ flags = None
    /\ rmres = [build |-> "none", out |-> "none"]
    /\ procs = <<>>
    /\ \A p \in Paths : fs[p] # "new"
    /\ \A p \in StagedFiles : exists(fs, p) <=> p \in staged0

Launched(cmd) == \E i \in 1..Len(procs) : procs[i].cmd = cmd

----------------------------------------------------------------------------
(* C1  Idempotence.  When the previous run returned normally after the     *)
(* detector said false, and this run has the same environment and its      *)
(* detector says false too, this run never enters run_build: no flag is    *)
(* composed, nothing is deleted, no subprocess is launched, and the three  *)
(* staged files are exactly as the previous run left them.                 *)
C1_Idempotence ==
    (prevOk /\ sameEnv /\ present = "false") =>
        /\ Pos(pc) \notin Pos("run_build")..Pos("copy_mpf2mpfr_h")
        /\ pc # "panicked"
        /\ Untouched
        /\ exists(fs, staged_lib) /\ exists(fs, staged_mpfr_h)

C1_Witness ==
    /\ prevOk /\ sameEnv /\ present = "false" /\ pc = "returned"
    /\ \A p \in StagedFiles : fs[p] = "old"
    /\ Len(Announced) = 3

(* C2  Staging completeness.  A run that returns normally after the        *)
(* detector said false leaves libmpfr.a, mpfr.h and mpf2mpfr.h staged and  *)
(* has printed exactly the three announcement lines, which name the        *)
(* staged directories.                                                     *)
C2_StagingComplete ==
    (pc = "returned" /\ present = "false") =>
        /\ \A p \in StagedFiles : exists(fs, p)
        /\ Announced = emit_cargo_config(mpfr_out_lib_dir, mpfr_out_include_dir)

(* C3  emit_cargo_config runs exactly once in every invocation that        *)
(* returns, never more than once in any invocation, and only when the      *)
(* archive and both headers are staged.                                    *)
C3_PublishedOnceAfterStaging ==
    /\ Len(Announced) \in {0, 3}
    /\ pc = "returned" => Len(Announced) = 3
    /\ (pc = "emit" \/ Len(Announced) > 0) => \A p \in StagedFiles : exists(fs, p)

(* C4  When check_library returns true, main returns at once: run_build    *)
(* is not entered, the tree is untouched, nothing is printed; and within   *)
(* a run every step moves to a later statement, none is entered twice.     *)
C4_ShortCircuit ==
    /\ [](present = "true" => (pc = "returned" /\ Untouched /\ stdout = <<>>))
    /\ [][pc' # "check_library" => Pos(pc') > Pos(pc)]_vars

C4_Witness ==
    /\ present = "true" /\ pc = "returned"
    /\ exists(fs, mpfr_build_dir) /\ ~Marker(fs)

(* C5  On a unix host with TARGET set: when the cache tool cannot be       *)
(* launched or prints nothing, and libmpfr.so is in none of /lib,          *)
(* /usr/lib, /usr/local/lib, check_library returns false and main goes on  *)
(* to the test that guards run_build.                                      *)
C5_NoFalsePresent ==
    ( /\ pc # "check_library"
      /\ host_os # "windows"
      /\ env.TARGET # None
      /\ (progs[LdTool] = None \/ progs[LdTool] = Some(<<>>))
      /\ sodirs \cap LibDirs = {} )
    => (present = "false" /\ pc = "check_marker")

C5_Witness ==
    /\ pc = "check_marker" /\ present = "false"
    /\ host_os = "linux" /\ env.TARGET # None
    /\ progs[LdTool] = Some(<<>>)
    /\ sodirs = {"/opt/lib"}

(* C6  On a unix host with TARGET set, check_library returns a boolean     *)
(* whatever the cache tool does: it never panics.                          *)
C6_DetectorNeverPanics ==
    env.TARGET # None => present # "panic"

(* C7  Within one run configure is launched at most once and make at most  *)
(* once, make only after configure exited with success; and when either    *)
(* cannot be launched or exits without success the run has aborted: it is  *)
(* the last subprocess of the run, nothing was staged and nothing          *)
(* announced.                                                              *)
C7_FailFast ==
    /\ Len(procs) <= 2
    /\ \A i \in 1..Len(procs) :
         /\ procs[i].cmd = "sh" => i = 1
         /\ procs[i].cmd # "sh" =>
              /\ i = 2 /\ procs[i].cmd = make(host_os)
              /\ procs[1].cmd = "sh" /\ procs[1].status = "ok"
         /\ procs[i].status # "ok" =>
              /\ i = Len(procs)
              /\ pc = "panicked"
              /\ \A p \in StagedFiles : fs[p] # "new"
              /\ Announced = <<>>

C7_Witness ==
    /\ Len(procs) = 2 /\ procs[2].status = "fail" /\ pc = "panicked"
    /\ exists(fs, p1) /\ exists(fs, build_mpfr_h) /\ exists(fs, build_mpf2mpfr_h)

(* C8  When the recursive deletion of OUT_DIR/build or of OUT_DIR/out      *)
(* fails although the directory exists, configure is not launched in that  *)
(* run.                                                                    *)
C8_CleanupFailureFatal ==
    (rmres.build = "err" \/ rmres.out = "err") => ~Launched("sh")

(* C9  configure is never launched while OUT_DIR/build holds an entry      *)
(* from before the run: at the launch the directory was made by this run   *)
(* and is empty, and from then on all it holds was written by this run.    *)
(* A run that does not enter run_build writes nothing there.               *)
C9_CleanupPrecedesBuild ==
    /\ pc = "configure" =>
         /\ fs[mpfr_build_dir] = "new"
         /\ \A p \in under(mpfr_build_dir) : ~exists(fs, p)
    /\ Launched("sh") =>
         /\ fs[mpfr_build_dir] = "new"
         /\ \A p \in under(mpfr_build_dir) : fs[p] # "old"
    /\ flags = None =>
         \A p \in under(mpfr_build_dir) \cup {mpfr_build_dir} : fs[p] # "new"

(* C9 as stated: configure is never launched on a build directory with     *)
(* stale entries, and after every run that returns normally the build      *)
(* directory holds only entries written by that run.                       *)
C9_AsStated ==
    /\ pc = "configure" => \A p \in under(mpfr_build_dir) : ~exists(fs, p)
    /\ pc = "returned" => \A p \in under(mpfr_build_dir) : fs[p] # "old"

C9_Witness ==
    /\ pc = "returned" /\ Len(procs) = 2
    /\ rmres.build = "ok"
    /\ exists(fs, build_makefile) /\ exists(fs, build_mpfr_h)

(* C10  With TARGET = x86_64-unknown-linux-gnu, CFLAGS unset or empty and  *)
(* DEP_GMP_INCLUDE = /opt/dep/include, the composed compile flags are the  *)
(* five flags -ffunction-sections -fdata-sections -m64 -fPIC               *)
(* -I/opt/dep/include, and the string ends with the last three separated   *)
(* by single spaces.                                                       *)
C10_ScenarioFlags ==
    ( /\ flags # None
      /\ env.TARGET = Some("x86_64-unknown-linux-gnu")
      /\ env.CFLAGS \in {None, Some("")}
      /\ env.DEP_GMP_INCLUDE = Some("/opt/dep/include") )
    => /\ words(unwrap(flags).cflags) =
            << "-ffunction-sections", "-fdata-sections", "-m64", "-fPIC",
               "-I/opt/dep/include" >>
       /\ ends_with(unwrap(flags).cflags, " -m64 -fPIC -I/opt/dep/include")


(* The number of times a word occurs in a sequence of words.               *)
Count(ws, w) == Cardinality({i \in 1..Len(ws) : ws[i] = w})

(* C11  The composed link flags are the ambient LDFLAGS followed by -Ld    *)
(* as a word of its own when DEP_GMP_LIBDIR = d, and the ambient LDFLAGS   *)
(* (empty when unset) when DEP_GMP_LIBDIR is unset.                        *)
C11_LinkFlags ==
    flags # None =>
        LET ambient == unwrap_or(env.LDFLAGS, "")
            ldflags == unwrap(flags).ldflags
        IN  IF env.DEP_GMP_LIBDIR # None
            THEN /\ starts_with(ldflags, ambient)
                 /\ words(ldflags) =
                        words(ambient) \o <<"-L" \o unwrap(env.DEP_GMP_LIBDIR)>>
            ELSE ldflags = ambient

(* C12  For every target the composed compile flags hold exactly one of    *)
(* -m32 and -m64, hold -fPIC exactly when the target is not the 32-bit     *)
(* (i686) one, and these flags follow the ambient CFLAGS, which is kept    *)
(* verbatim at the front.                                                  *)
C12_TargetFlags ==
    flags # None =>
        LET ambient == unwrap_or(env.CFLAGS, "")
            cflags  == unwrap(flags).cflags
            ws      == words(cflags)
            n       == Len(words(ambient))
        IN  /\ Count(ws, "-m32") + Count(ws, "-m64") = 1
            /\ Count(ws, "-fPIC") =
                 (IF contains(unwrap(env.TARGET), "i686") THEN 0 ELSE 1)
            /\ starts_with(cflags, ambient)
            /\ \A i \in 1..Len(ws) : ws[i] \in {"-m32", "-m64", "-fPIC"} => i > n


(* C13  When configure and make both succeeded but neither                 *)
(* build/src/.libs/libmpfr.a nor build/src/.libs/libmpfr.lib exists, the   *)
(* run aborts at the rename: the tree stays as it is (no archive appears   *)
(* in out/lib, no header is copied) and nothing is announced.              *)
C13_MissingArchiveAborts ==
    /\ [][(pc = "rename" /\ ~exists(fs, p1) /\ ~exists(fs, p2)) =>
            (pc' = "panicked" /\ fs' = fs /\ stdout' = stdout)]_vars
    /\ []((pc = "panicked" /\ Len(procs) = 2 /\ fs[staged_lib] # "new") =>
            /\ fs[staged_mpfr_h] # "new" /\ fs[staged_mpf2mpfr_h] # "new"
            /\ Announced = <<>>)

C13_Witness ==
    /\ pc = "panicked" /\ Len(procs) = 2 /\ procs[2].status = "ok"
    /\ ~exists(fs, p1) /\ ~exists(fs, p2) /\ fs[staged_lib] # "new"
    /\ exists(fs, build_mpfr_h) /\ exists(fs, build_mpf2mpfr_h)
    /\ exists(fs, mpfr_out_lib_dir) /\ exists(fs, mpfr_out_include_dir)


(* A line of the cache listing that names the library and, for a 64-bit    *)
(* target, carries the 64-bit tag.                                         *)
Qualifies(l, target) ==
    /\ l.ok
    /\ contains(l.text, MPFR_NAME)
    /\ contains(target, "64") => contains(l.text, "x86-64")

Unix == host_os # "windows"

Detected == pc # "check_library"

(* C14  On a unix host with TARGET set, when the cache tool printed a      *)
(* non-empty listing, check_library returns true exactly when some line    *)
(* of it qualifies.                                                        *)
C14_ArchitectureFilter ==
    ( /\ Detected /\ Unix /\ env.TARGET # None
      /\ progs[LdTool] # None /\ progs[LdTool] # Some(<<>>) )
    => LET output == unwrap(progs[LdTool])
       IN  present = "true" <=>
             \E i \in 1..Len(output) : Qualifies(output[i], unwrap(env.TARGET))

(* C15  On a unix host, whenever check_library returns false, libmpfr.so   *)
(* is in none of /lib, /usr/lib, /usr/local/lib.                           *)
C15_FalseOnlyWhenExhausted ==
    (Detected /\ Unix /\ present = "false") => sodirs \cap LibDirs = {}

(* C16  On a unix host with TARGET set, when ldconfig is installed and     *)
(* its listing has a qualifying line, check_library returns true and main  *)
(* returns without building.                                               *)
C16_LdconfigQueried ==
    ( /\ Detected /\ Unix /\ env.TARGET # None
      /\ progs["ldconfig"] # None
      /\ \E i \in 1..Len(unwrap(progs["ldconfig"])) :
            Qualifies(unwrap(progs["ldconfig"])[i], unwrap(env.TARGET)) )
    => (present = "true" /\ pc = "returned")


(* The BSD family of target triples.                                       *)
IsBsd(target) == contains(target, "bsd") \/ contains(target, "dragonfly")

(* C17  The build tool launched is gmake when TARGET names a BSD and make  *)
(* otherwise, and its one argument is -jN with N the value of NUM_JOBS.    *)
C17_BuildTool ==
    \A i \in 1..Len(procs) :
        procs[i].cmd # "sh" =>
            /\ procs[i].cmd = (IF IsBsd(unwrap(env.TARGET)) THEN "gmake"
                               ELSE "make")
            /\ procs[i].args = <<"-j" \o unwrap(env.NUM_JOBS)>>


(* C18  The rename takes libmpfr.a (or, when that is missing, libmpfr.lib) *)
(* out of the build directory and makes it out/lib/libmpfr.a, leaving the  *)
(* other archive path as it was; the two copies leave the build directory  *)
(* as it was; so a run that completed run_build has the archive and both   *)
(* headers staged and both headers still in the build directory.           *)
RenameMoves ==
    (pc = "rename" /\ pc' = "copy_mpfr_h") =>
        LET from  == IF exists(fs, p1) THEN p1 ELSE p2
            other == IF exists(fs, p1) THEN p2 ELSE p1
        IN  /\ exists(fs, from) /\ ~exists(fs', from)
            /\ fs'[staged_lib] = "new"
            /\ fs'[other] = fs[other]

CopyKeepsSource ==
    pc \in {"copy_mpfr_h", "copy_mpf2mpfr_h"} =>
        (\A p \in BuildFiles \cup {mpfr_build_dir} : fs'[p] = fs[p])

C18_MoveAndCopy ==
    /\ [][RenameMoves]_vars
    /\ [][CopyKeepsSource]_vars
    /\ []((pc \in {"emit", "returned"} /\ Len(procs) = 2) =>
            /\ ~exists(fs, p1)
            /\ \A p \in StagedFiles : fs[p] = "new"
            /\ fs[build_mpfr_h] = "new" /\ fs[build_mpf2mpfr_h] = "new")

C18_Witness ==
    /\ pc = "returned" /\ Len(procs) = 2
    /\ ~exists(fs, p1) /\ exists(fs, p2)
    /\ exists(fs, build_mpfr_h) /\ exists(fs, staged_mpfr_h)

(* C19  A run that aborts inside run_build leaves the tree without the     *)
(* pair out/lib/libmpfr.a, out/include/mpfr.h that makes the next run      *)
(* skip run_build.                                                         *)
C19_AbortLeavesNoMarker ==
    (pc = "panicked" /\ flags # None) => ~Marker(fs)

====
